---- MODULE Spec2Model ----
(***************************************************************************)
(* Concord chat server (src/src/server.py): one handler thread per        *)
(* accepted connection, all of them reading and writing the two shared    *)
(* dictionaries self.clients and self.rooms without any lock.             *)
(*                                                                         *)
(* A Python dict is modelled as a sequence of [k, v] entries in insertion *)
(* order.  A client dictionary {'address','socket','room'} is a mutable   *)
(* object shared by reference between self.clients and the 'users' dict   *)
(* of a room; the object created by the handler of connection c is named  *)
(* by c, its 'socket' is the socket of connection c and its 'room' field  *)
(* is croom[c].                                                            *)
(***************************************************************************)
EXTENDS Integers, Sequences, FiniteSets, TLC

\* ------------------------------------------------------------------ bounds
NumConns == 2

Conns == 1..NumConns

\* The connections of the one-peer specification SpecWide.
NumWideConns == 1

WideConns == 1..NumWideConns

\* Python's None (never used as a name on the wire).
None == "<None>"

\* The names a peer puts between the braces of \insert{...}.
NickArgs == {"alice", "bob"}

\* The names a peer puts between the braces of \join{...}, \create{...}, \online{...}.
RoomArgs == {"lobby", "den"}

\* The same with the empty name of \create{}, \join{}, \online{}.
WideRoomArgs == RoomArgs \cup {""}

\* The one chat text peers send.
ChatText == "hi"

\* The frames the peers of SpecChat may have written that the handlers have not
\* read, over all connections.
MaxWire == 2

\* The numbered chat texts a peer of SpecChat sends, in this order:
\* ChatNo(1) .. ChatNo(MaxChat).
MaxChat == 2

ChatNo(n) == "m" \o ToString(n)

\* The number of a numbered chat text.
NoOfChat(t) == CHOOSE n \in 1..MaxChat : ChatNo(n) = t

\* ------------------------------------------------------------------ frames
\* An inbound frame: the keyword after the backslash ("text" when the frame
\* does not start with a backslash keyword) and the brace argument (None when
\* the frame has no braces).
FramesOver(nickArgs, roomArgs) ==
    [kw : {"insert"}, arg : nickArgs]
    \cup [kw : {"join", "create", "online"}, arg : roomArgs \cup {None}]
    \cup [kw : {"quit", "leave", "rooms", "text"}, arg : {None}]

Frames == FramesOver(NickArgs, RoomArgs)

\* The same with \insert without braces and with the empty room name.
WideFrames == FramesOver(NickArgs \cup {None}, WideRoomArgs)

\* One room name only: the frames of the peers of SpecRace, SpecStop, SpecChat.
NarrowFrames == FramesOver(NickArgs, {"lobby"})

\* The chat text a frame carries: its number when the peer numbers its texts
\* (SpecChat), ChatText otherwise.
message_text(f) == IF f.kw = "text" /\ f.arg # None THEN f.arg ELSE ChatText

\* A frame that starts with \insert reads as chat text in the 'Infinity' loop,
\* like the "text" frame.
ActiveFrames(F) == {f \in F : f.kw # "insert"}

\* insert_regexp.match: the groups (command, nick), or no match.
insert_regexp(f) ==
    IF f.kw \in {"quit", "insert"} THEN [match |-> TRUE, command |-> f.kw, arg |-> f.arg]
    ELSE [match |-> FALSE, command |-> None, arg |-> None]

\* self.commands_re.match: the groups (command, argument), or no match.
commands_re(f) ==
    IF f.kw \in {"quit", "leave", "join", "rooms", "online", "create"}
    THEN [match |-> TRUE, command |-> f.kw, arg |-> f.arg]
    ELSE [match |-> FALSE, command |-> None, arg |-> None]

\* An outbound frame: "\<kind>=<body joined by |>", or a chat line
\* "[prefix]: msg" with body <<prefix, msg>>.
Reply(kind, body) == [kind |-> kind, body |-> body]

\* ------------------------------------------------------------------ dicts
HasKey(d, k) == \E i \in 1..Len(d) : d[i].k = k

Get(d, k) == d[CHOOSE i \in 1..Len(d) : d[i].k = k].v

Put(d, k, v) ==
    IF HasKey(d, k)
    THEN [i \in 1..Len(d) |-> IF d[i].k = k THEN [k |-> k, v |-> v] ELSE d[i]]
    ELSE Append(d, [k |-> k, v |-> v])

RECURSIVE Del(_, _)
Del(d, k) ==
    IF d = <<>> THEN <<>>
    ELSE IF Head(d).k = k THEN Tail(d)
    ELSE <<Head(d)>> \o Del(Tail(d), k)

Keys(d) == [i \in 1..Len(d) |-> d[i].k]

Values(d) == [i \in 1..Len(d) |-> d[i].v]

KeySet(d) == {d[i].k : i \in 1..Len(d)}

\* ------------------------------------------------------------------ state
VARIABLES
    pc,       \* per connection: where its handler thread is
    nick,     \* per connection: the handler's local variable nick
    clients,  \* self.clients: dict nickname -> client object
    rooms,    \* self.rooms: dict room name -> users dict (nickname -> client object)
    croom,    \* per client object: its 'room' field
    sock,     \* per connection: "open", "reset" (the peer is gone), "closed" (socket.close())
    sent,     \* the frames written by the last handler step, in order: [to, frame]
    last,     \* the last step: [conn, kw, arg, exc]; exc is the exception that
              \* left the try body (NoExc when none)
    attrs,    \* whether the attributes self.clients and self.rooms exist (stop_server
              \* deletes them)
    held_room,\* per connection: the local variable room_name of a create_room or
              \* leave_room call between its test and its write (None otherwise)
    wire,     \* per connection: the frames its peer has written and the handler
              \* has not read yet, oldest first (used by SpecChat)
    seq,      \* per connection: how many numbered chat texts its peer has written
    inbox     \* per connection: the chat lines written to it so far, in order:
              \* [from, text], from the connection whose handler sent it

vars == <<pc, nick, clients, rooms, croom, sock, sent, last, attrs, held_room, wire, seq, inbox>>

NoExc == ""

\* The exceptions a send to a socket whose peer is gone can raise.
ConnErrors == {"ConnectionResetError", "BrokenPipeError"}

\* The shared state a handler step works on, threaded through its statements:
\* exc is the exception being raised (NoExc when none), errk the error a send to
\* a dead peer raises in this step, ret whether the handler has returned.
Machine(errk) ==
    [clients |-> clients, rooms |-> rooms, croom |-> croom, sock |-> sock,
     sent |-> <<>>, exc |-> NoExc, errk |-> errk, ret |-> FALSE, attrs |-> attrs]

\* Evaluating self.clients or self.rooms: AttributeError once stop_server has
\* deleted the attributes.
Attr(st) ==
    IF st.exc # NoExc THEN st
    ELSE IF ~st.attrs THEN [st EXCEPT !.exc = "AttributeError"]
    ELSE st

Raise(st, e) == [st EXCEPT !.exc = e]

\* socket.send(bytes(...)): delivered on an open connection; ConnectionResetError
\* or BrokenPipeError when the peer is gone; OSError (bad file descriptor) on a
\* socket this process has closed.
send(st, s, frame) ==
    IF st.exc # NoExc THEN st
    ELSE IF st.sock[s] = "open" THEN [st EXCEPT !.sent = Append(@, [to |-> s, frame |-> frame])]
    ELSE IF st.sock[s] = "reset" THEN Raise(st, st.errk)
    ELSE Raise(st, "OSError")

\* socket.close()
close(st, s) ==
    IF st.exc # NoExc THEN st ELSE [st EXCEPT !.sock[s] = "closed"]

\* self.clients[nick]['room'] = room
SetRoom(st, n, room) ==
    IF st.exc # NoExc THEN st
    ELSE IF ~HasKey(st.clients, n) THEN Raise(st, "KeyError")
    ELSE [st EXCEPT !.croom[Get(st.clients, n)] = room]

\* self.rooms[room]['users'][nick] = self.clients[nick]
AddUser(st, room, n) ==
    IF st.exc # NoExc THEN st
    ELSE IF ~HasKey(st.clients, n) \/ ~HasKey(st.rooms, room) THEN Raise(st, "KeyError")
    ELSE [st EXCEPT !.rooms = Put(@, room, Put(Get(@, room), n, Get(st.clients, n)))]

\* del self.rooms[room]['users'][nick]
DelUser(st, room, n) ==
    IF st.exc # NoExc THEN st
    ELSE IF ~HasKey(st.rooms, room) THEN Raise(st, "KeyError")
    ELSE IF ~HasKey(Get(st.rooms, room), n) THEN Raise(st, "KeyError")
    ELSE [st EXCEPT !.rooms = Put(@, room, Del(Get(@, room), n))]

\* del self.rooms[room]
DelRoom(st, room) ==
    IF st.exc # NoExc THEN st
    ELSE IF ~HasKey(st.rooms, room) THEN Raise(st, "KeyError")
    ELSE [st EXCEPT !.rooms = Del(@, room)]

\* del self.clients[nick]
DelClient(st, n) ==
    IF st.exc # NoExc THEN st
    ELSE IF ~HasKey(st.clients, n) THEN Raise(st, "KeyError")
    ELSE [st EXCEPT !.clients = Del(@, n)]

\* self.clients[nick]['room'] as an expression; None stands in when the lookup
\* raises (the statement using it raises KeyError first, see ClientsLookup).
RoomOf(st, n) ==
    IF HasKey(st.clients, n) THEN st.croom[Get(st.clients, n)] ELSE None

\* Evaluating self.clients[nick]: KeyError when nick is no key.
ClientsLookup(st, n) ==
    IF st.exc # NoExc THEN st
    ELSE IF ~HasKey(st.clients, n) THEN Raise(st, "KeyError")
    ELSE st

\* ------------------------------------------------------------------ Server methods
\* Server.broadcast: one send per recipient, in list order; the first send that
\* raises ends the loop.
RECURSIVE broadcast(_, _, _, _)
broadcast(st, msg, recipients, prefix) ==
    IF recipients = <<>> \/ st.exc # NoExc THEN st
    ELSE broadcast(
            send(st, Head(recipients),
                 IF prefix # "" THEN Reply("chat", <<prefix>> \o msg.body) ELSE msg),
            msg, Tail(recipients), prefix)

\* room_announce without the test of line 239.
room_announce_unchecked(st, msg, room, prefix) ==
    IF st.exc # NoExc THEN st
    ELSE IF ~HasKey(st.rooms, room) THEN Raise(st, "KeyError")
    ELSE broadcast(st, msg, Values(Get(st.rooms, room)), prefix)

\* Server.room_announce
room_announce(st, msg, room, prefix) ==
    IF st.exc # NoExc THEN st
    ELSE IF room = None THEN st
    ELSE IF ~HasKey(st.rooms, room) THEN Raise(st, "KeyError")
    ELSE broadcast(st, msg, Values(Get(st.rooms, room)), prefix)

\* get_online_users listing every registered client instead of the room's users.
get_online_users_all(st, room) ==
    IF HasKey(st.rooms, room) /\ room # None
    THEN Reply("online", Keys(st.clients))
    ELSE Reply("online", <<"no_room">>)

\* Server.get_online_users
get_online_users(st, room) ==
    IF HasKey(st.rooms, room) /\ room # None
    THEN Reply("online", Keys(Get(st.rooms, room)))
    ELSE Reply("online", <<"no_room">>)

\* join_room with the room reference written before the test of line 263.
join_room_eager(st, user_nick, room, user_socket) ==
    LET s1 == SetRoom(st, user_nick, room) IN
    IF HasKey(st.rooms, room) /\ room # None
    THEN LET s2 == AddUser(s1, room, user_nick)
             s3 == send(s2, user_socket, Reply("join", <<"success">>))
         IN  room_announce(s3, get_online_users(s3, room), room, "")
    ELSE send(s1, user_socket, Reply("join", <<"failure">>))

\* Server.join_room
join_room(st, user_nick, room, user_socket) ==
    IF st.exc # NoExc THEN st
    ELSE IF HasKey(st.rooms, room) /\ room # None
    THEN LET s1 == SetRoom(st, user_nick, room)
             s2 == AddUser(s1, room, user_nick)
             s3 == send(s2, user_socket, Reply("join", <<"success">>))
         IN  room_announce(s3, get_online_users(s3, room), room, "")
    ELSE send(st, user_socket, Reply("join", <<"failure">>))

\* leave_room without line 300: the room reference is left as it was.
leave_room_keeps(st, user_nick, user_socket) ==
    IF st.exc # NoExc THEN st
    ELSE IF ~HasKey(st.clients, user_nick) THEN Raise(st, "KeyError")
    ELSE LET room_name == RoomOf(st, user_nick) IN
         IF room_name # None
         THEN LET s1 == send(st, user_socket, Reply("leave", <<"success">>))
                  s2 == DelUser(s1, room_name, user_nick)
              IN  IF s2.exc # NoExc THEN s2
                  ELSE IF Len(Get(s2.rooms, room_name)) = 0
                  THEN DelRoom(s2, room_name)
                  ELSE room_announce(s2, get_online_users(s2, RoomOf(s2, user_nick)),
                                     room_name, "")
         ELSE send(st, user_socket, Reply("leave", <<"no_room">>))

\* Server.leave_room
leave_room(st, user_nick, user_socket) ==
    IF st.exc # NoExc THEN st
    ELSE IF ~HasKey(st.clients, user_nick) THEN Raise(st, "KeyError")
    ELSE LET room_name == RoomOf(st, user_nick) IN
         IF room_name # None
         THEN LET s1 == send(st, user_socket, Reply("leave", <<"success">>))
                  s2 == DelUser(s1, room_name, user_nick)
                  s3 == IF s2.exc # NoExc THEN s2
                        ELSE IF Len(Get(s2.rooms, room_name)) = 0
                        THEN DelRoom(s2, room_name)
                        ELSE room_announce(s2, get_online_users(s2, RoomOf(s2, user_nick)),
                                           room_name, "")
              IN  SetRoom(s3, user_nick, None)
         ELSE send(st, user_socket, Reply("leave", <<"no_room">>))

\* Server.create_room
create_room(st, room_name, user_socket) ==
    IF st.exc # NoExc THEN st
    ELSE IF ~HasKey(st.rooms, room_name) /\ room_name # None
    THEN send([st EXCEPT !.rooms = Put(@, room_name, <<>>)],
              user_socket, Reply("create", <<"success">>))
    ELSE send(st, user_socket, Reply("create", <<"failure">>))

\* ------------------------------------------------------------------ handle_connection
\* One pass of the "Loop to get user's nickname" up to the membership test
\* (lines 137-158).  When the test `nick in self.clients.keys()` finds the
\* name unused, the write of line 155 is the handler's next step (InsertWrite):
\* the threads share the dictionaries without a lock, so other handlers can
\* run between the test and the write.
await_name(st, socket, f) ==
    LET m == insert_regexp(f) IN
    IF ~m.match THEN send(st, socket, Reply("insert", <<"not_valid_nickname">>))
    ELSE IF m.command = "quit"
    THEN LET s1 == send(st, socket, Reply("quit", <<"success">>))
             s2 == close(s1, socket)
         IN  IF s2.exc # NoExc THEN s2 ELSE [s2 EXCEPT !.ret = TRUE]
    ELSE IF m.command = "insert" /\ m.arg # None
    THEN IF ~st.attrs THEN Attr(st)
         ELSE IF HasKey(st.clients, m.arg)
         THEN send(st, socket, Reply("insert", <<"not_valid_nickname">>))
         ELSE st
    ELSE st

\* The local nick after one pass of the nickname loop.
await_nick(old, f) ==
    IF insert_regexp(f).match THEN insert_regexp(f).arg ELSE old

\* Whether the pass reached the else branch of line 154.
name_free(st, f) ==
    LET m == insert_regexp(f) IN
    m.match /\ m.command = "insert" /\ m.arg # None /\ ~HasKey(st.clients, m.arg)

\* One pass of the 'Infinity' loop (lines 166-210) on the frame f.  Every
\* branch evaluates self.clients or self.rooms before it does anything else.
active_loop(st, n, socket, f) ==
    LET m == commands_re(f) IN
    IF ~st.attrs THEN Attr(st)
    ELSE IF ~m.match
    THEN room_announce(ClientsLookup(st, n), Reply("text", <<message_text(f)>>), RoomOf(st, n), n)
    ELSE IF m.command = "quit"
    THEN LET s1 == leave_room(st, n, socket)
             s2 == DelClient(s1, n)
             s3 == send(s2, socket, Reply("quit", <<"success">>))
             s4 == close(s3, socket)
         IN  IF s4.exc # NoExc THEN s4 ELSE [s4 EXCEPT !.ret = TRUE]
    ELSE IF m.command = "rooms" THEN send(st, socket, Reply("rooms", Keys(st.rooms)))
    ELSE IF m.command = "online" THEN send(st, socket, get_online_users(st, m.arg))
    ELSE IF m.command = "join" THEN join_room(st, n, m.arg, socket)
    ELSE IF m.command = "leave" THEN leave_room(st, n, socket)
    ELSE create_room(st, m.arg, socket)

\* except ConnectionResetError (lines 213-221); entered with the exception cleared.
except_reset(st, n, socket) ==
    LET s1 == IF n # ""
              THEN LET a1 == ClientsLookup(Attr(st), n)
                       a2 == room_announce(a1, Reply("text", <<n, "has left the chat">>),
                                           RoomOf(a1, n), "Server")
                       a3 == DelUser(ClientsLookup(a2, n), RoomOf(a2, n), n)
                   IN  DelClient(a3, n)
              ELSE st
        s2 == close(s1, socket)
    IN  IF s2.exc # NoExc THEN s2 ELSE [s2 EXCEPT !.ret = TRUE]

\* except BrokenPipeError (lines 222-229); entered with the exception cleared.
except_pipe(st, n, socket) ==
    LET s1 == IF n # ""
              THEN DelClient(DelUser(ClientsLookup(Attr(st), n), RoomOf(st, n), n), n)
              ELSE st
        s2 == close(s1, socket)
    IN  IF s2.exc # NoExc THEN s2 ELSE [s2 EXCEPT !.ret = TRUE]

\* The try statement around both loops: what the body's outcome becomes.
try_except(st, n, socket) ==
    IF st.exc = "ConnectionResetError" THEN except_reset([st EXCEPT !.exc = NoExc], n, socket)
    ELSE IF st.exc = "BrokenPipeError" THEN except_pipe([st EXCEPT !.exc = NoExc], n, socket)
    ELSE st

\* The handler's position after a step that started in `here`: an exception
\* that leaves handle_connection ends the thread with its socket still open.
NextPc(st, here) ==
    IF st.exc # NoExc THEN "Crashed"
    ELSE IF st.ret THEN "Terminated"
    ELSE here

\* Whether some dictionary still refers to the client object o.
Referenced(st, o) ==
    \/ \E i \in 1..Len(st.clients) : st.clients[i].v = o
    \/ \E i \in 1..Len(st.rooms) : \E j \in 1..Len(st.rooms[i].v) : st.rooms[i].v[j].v = o

\* The local nick of a handler thread: gone with the thread when it has ended.
LocalNick(n, position) == IF position \in {"Terminated", "Crashed"} THEN "" ELSE n

\* Writes the shared state a step leaves behind.  A client object no dictionary
\* refers to any more is garbage: its 'room' field is not kept.
Commit(st, c, f, body) ==
    /\ clients' = st.clients
    /\ rooms' = st.rooms
    /\ croom' = [o \in Conns |-> IF Referenced(st, o) THEN st.croom[o] ELSE None]
    /\ sock' = st.sock
    /\ sent' = st.sent
    /\ last' = [conn |-> c, kw |-> f.kw, arg |-> f.arg, exc |-> body.exc]

\* The errors a send can raise in a step: both kinds when some peer is gone
\* (a step in which every peer is there raises neither).
ErrKinds ==
    IF \E d \in Conns : sock[d] = "reset" THEN ConnErrors ELSE {"BrokenPipeError"}

\* The end of a handler step whose try body left the outcome `body`, with n
\* the local nick and `here` the loop the handler is in when nothing ends it.
Finish(c, f, body, n, here) ==
    \E st \in {try_except(body, n, c)} :
        \E position \in {NextPc(st, here)} :
            /\ pc' = [pc EXCEPT ![c] = position]
            /\ nick' = [nick EXCEPT ![c] = LocalNick(n, position)]
            /\ Commit(st, c, f, body)

\* ------------------------------------------------------------------ create_room, leave_room in steps
\* The test of line 315 of create_room.
create_free(st, name) == ~HasKey(st.rooms, name) /\ name # None

\* Lines 317-319 of create_room: the write and the reply, after the test passed.
create_write(st, name, user_socket) ==
    IF ~st.attrs THEN Attr(st)
    ELSE send([st EXCEPT !.rooms = Put(@, name, <<>>)],
              user_socket, Reply("create", <<"success">>))

\* Whether leave_room, called for user_nick, reaches line 293: the user is in
\* a room of which it is the only member left.
leave_empties(st, user_nick) ==
    /\ st.attrs
    /\ HasKey(st.clients, user_nick)
    /\ RoomOf(st, user_nick) # None
    /\ HasKey(st.rooms, RoomOf(st, user_nick))
    /\ KeySet(Get(st.rooms, RoomOf(st, user_nick))) = {user_nick}

\* Lines 285-292 of leave_room in that case: the reply, the removal of the
\* user's entry, and the test `len(...) == 0`, which is true.
leave_until_test(st, user_nick, user_socket) ==
    DelUser(send(st, user_socket, Reply("leave", <<"success">>)),
            RoomOf(st, user_nick), user_nick)

\* Lines 293-300 of leave_room after that test, and lines 177-182 when the
\* call came from the quit command.
leave_delete(st, user_nick, name, user_socket, quitting) ==
    LET s1 == SetRoom(DelRoom(Attr(st), name), user_nick, None)
        s2 == DelClient(s1, user_nick)
        s3 == send(s2, user_socket, Reply("quit", <<"success">>))
        s4 == close(s3, user_socket)
    IN  IF ~quitting THEN s1
        ELSE IF s4.exc # NoExc THEN s4 ELSE [s4 EXCEPT !.ret = TRUE]

\* ------------------------------------------------------------------ sockets and stop_server
\* A recv that returns the newest unread frame instead of the oldest.
recv_newest(w) == [frame |-> w[Len(w)], rest |-> SubSeq(w, 1, Len(w) - 1)]

\* socket.recv on a connection whose peer has written the frames w: the oldest
\* unread frame, and what stays unread.
recv(w) == [frame |-> Head(w), rest |-> Tail(w)]

\* The chat lines "[nick]: text" with a numbered text among the frames s that
\* the handler of connection c wrote to connection t.
ChatLines(s, c, t) ==
    LET mine == SelectSeq(s, LAMBDA e : /\ e.to = t
                                        /\ e.frame.kind = "chat"
                                        /\ Len(e.frame.body) = 2
                                        /\ e.frame.body[2] \in {ChatNo(n) : n \in 1..MaxChat})
    IN  [i \in 1..Len(mine) |-> [from |-> c, text |-> mine[i].frame.body[2]]]

\* Lines 70-71 of stop_server: the sockets of the values of self.clients.
stop_server(sk, cl) ==
    [c \in Conns |-> IF \E i \in 1..Len(cl) : cl[i].v = c THEN "closed" ELSE sk[c]]

\* ------------------------------------------------------------------ actions
\* One pass of the nickname loop of connection c on the frame f.
NameStep(c, f) ==
    \E errk \in ErrKinds :
        \E body \in {await_name(Machine(errk), c, f)} :
            Finish(c, f, body, await_nick(nick[c], f),
                   IF body.exc = NoExc /\ name_free(body, f) THEN "InsertWrite"
                   ELSE "AwaitingName")

\* One pass of the 'Infinity' loop of connection c on the frame f.
ActiveStep(c, f) ==
    \E errk \in ErrKinds :
        \E body \in {active_loop(Machine(errk), nick[c], c, f)} :
            Finish(c, f, body, nick[c], "Active")

\* socket.recv returns a frame in the nickname loop.  The peer may be gone
\* already when the frame it sent is read: the handler's replies then raise.
RecvName(c, F) ==
    /\ pc[c] = "AwaitingName"
    /\ sock[c] \in {"open", "reset"}
    /\ \E f \in F : NameStep(c, f)
    /\ UNCHANGED <<attrs, held_room, wire, seq, inbox>>

\* self.clients[nick] = {'address': address, 'socket': socket, 'room': None}
\* (an object the write replaces in clients is garbage unless a room holds it).
InsertWrite(c) ==
    /\ pc[c] = "InsertWrite"
    /\ IF attrs
       THEN /\ clients' = Put(clients, nick[c], c)
            /\ croom' = [o \in Conns |->
                            IF o # c /\ Referenced([clients |-> Put(clients, nick[c], c),
                                                    rooms |-> rooms], o)
                            THEN croom[o] ELSE None]
            /\ pc' = [pc EXCEPT ![c] = "Active"]
            /\ last' = [conn |-> c, kw |-> "insert_write", arg |-> nick[c], exc |-> NoExc]
            /\ UNCHANGED nick
       ELSE /\ pc' = [pc EXCEPT ![c] = "Crashed"]
            /\ nick' = [nick EXCEPT ![c] = LocalNick(nick[c], "Crashed")]
            /\ last' = [conn |-> c, kw |-> "insert_write", arg |-> nick[c],
                        exc |-> "AttributeError"]
            /\ UNCHANGED <<clients, croom>>
    /\ sent' = <<>>
    /\ UNCHANGED <<rooms, sock, attrs, held_room, wire, seq, inbox>>

\* socket.recv returns a frame in the 'Infinity' loop (the peer may be gone
\* already, as in RecvName).
RecvActive(c, F) ==
    /\ pc[c] = "Active"
    /\ sock[c] \in {"open", "reset"}
    /\ \E f \in ActiveFrames(F) : ActiveStep(c, f)
    /\ UNCHANGED <<attrs, held_room, wire, seq, inbox>>

\* socket.recv raises ConnectionResetError: the peer is gone.
RecvFail(c) ==
    /\ pc[c] \in {"AwaitingName", "Active"}
    /\ sock[c] = "reset"
    /\ \E errk \in ErrKinds :
          Finish(c, [kw |-> "recv_error", arg |-> None],
                 Raise(Machine(errk), "ConnectionResetError"), nick[c], pc[c])
    /\ UNCHANGED <<attrs, held_room, wire, seq, inbox>>

\* The peer of c resets the connection.
Disconnect(c) ==
    /\ pc[c] \in {"AwaitingName", "InsertWrite", "Active"}
    /\ sock[c] = "open"
    /\ sock' = [sock EXCEPT ![c] = "reset"]
    /\ sent' = <<>>
    /\ last' = [conn |-> c, kw |-> "disconnect", arg |-> None, exc |-> NoExc]
    /\ UNCHANGED <<pc, nick, clients, rooms, croom, attrs, held_room, wire, seq, inbox>>

\* RecvActive with create_room and leave_room in steps: a create whose test
\* passes stops before the write of line 317, a leave or quit of the last
\* member of a room stops before the deletion of line 293; the handler's next
\* step is CreateWrite or LeaveDelete.  Every other frame is handled as in
\* RecvActive.
RecvSplit(c, F) ==
    /\ pc[c] = "Active"
    /\ sock[c] \in {"open", "reset"}
    /\ \E f \in ActiveFrames(F), errk \in ErrKinds :
          \E st \in {Machine(errk)} :
              IF f.kw = "create" /\ st.attrs /\ create_free(st, f.arg)
              THEN /\ Finish(c, f, st, nick[c], "CreateWrite")
                   /\ held_room' = [held_room EXCEPT ![c] = f.arg]
              ELSE IF f.kw \in {"leave", "quit"} /\ leave_empties(st, nick[c])
              THEN \E body \in {leave_until_test(st, nick[c], c)} :
                      /\ Finish(c, f, body, nick[c],
                                IF f.kw = "leave" THEN "LeaveDelete" ELSE "QuitDelete")
                      /\ held_room' = [held_room EXCEPT ![c] =
                                          IF body.exc = NoExc THEN RoomOf(st, nick[c]) ELSE None]
              ELSE \E body \in {active_loop(st, nick[c], c, f)} :
                      /\ Finish(c, f, body, nick[c], "Active")
                      /\ UNCHANGED held_room
    /\ UNCHANGED <<attrs, wire, seq, inbox>>

\* self.rooms[room_name] = {'users': {}} and the reply of line 319.
CreateWrite(c) ==
    /\ pc[c] = "CreateWrite"
    /\ \E errk \in ErrKinds :
          \E body \in {create_write(Machine(errk), held_room[c], c)} :
              Finish(c, [kw |-> "create_write", arg |-> held_room[c]], body, nick[c], "Active")
    /\ held_room' = [held_room EXCEPT ![c] = None]
    /\ UNCHANGED <<attrs, wire, seq, inbox>>

\* del self.rooms[room_name] and what follows it in leave_room and in quit.
LeaveDelete(c) ==
    /\ pc[c] \in {"LeaveDelete", "QuitDelete"}
    /\ \E errk \in ErrKinds :
          \E body \in {leave_delete(Machine(errk), nick[c], held_room[c], c,
                                    pc[c] = "QuitDelete")} :
              Finish(c, [kw |-> IF pc[c] = "QuitDelete" THEN "quit_delete" ELSE "leave_delete",
                         arg |-> held_room[c]],
                     body, nick[c], "Active")
    /\ held_room' = [held_room EXCEPT ![c] = None]
    /\ UNCHANGED <<attrs, wire, seq, inbox>>

\* Server.stop_server (lines 70-73), from the console thread: the sockets of
\* the registered clients are closed, self.clients and self.rooms are deleted.
StopServer ==
    /\ attrs
    /\ sock' = stop_server(sock, clients)
    /\ attrs' = FALSE
    /\ clients' = <<>>
    /\ rooms' = <<>>
    /\ croom' = [c \in Conns |-> None]
    /\ sent' = <<>>
    /\ last' = [conn |-> 0, kw |-> "stop_server", arg |-> None, exc |-> NoExc]
    /\ UNCHANGED <<pc, nick, held_room, wire, seq, inbox>>

\* socket.recv on a socket this process has closed raises OSError (bad file
\* descriptor), which no except clause of handle_connection names.
RecvClosed(c) ==
    /\ pc[c] \in {"AwaitingName", "Active"}
    /\ sock[c] = "closed"
    /\ \E errk \in ErrKinds :
          Finish(c, [kw |-> "recv_closed", arg |-> None],
                 Raise(Machine(errk), "OSError"), nick[c], pc[c])
    /\ UNCHANGED <<attrs, held_room, wire, seq, inbox>>

\* The number of frames written to the connections of C and not read yet.
RECURSIVE Unread(_)
Unread(C) ==
    IF C = {} THEN 0
    ELSE LET c == CHOOSE d \in C : TRUE IN Len(wire[c]) + Unread(C \ {c})

\* The peer of c writes a frame: a command of F, or its next numbered chat text.
PeerSend(c, F) ==
    /\ pc[c] \in {"AwaitingName", "InsertWrite", "Active"}
    /\ sock[c] = "open"
    /\ Unread(Conns) < MaxWire
    /\ \E f \in {g \in F : g.kw # "text"}
                \cup {[kw |-> "text", arg |-> ChatNo(n)] : n \in {seq[c] + 1} \cap (1..MaxChat)} :
          /\ wire' = [wire EXCEPT ![c] = Append(@, f)]
          /\ seq' = [seq EXCEPT ![c] = IF f.kw = "text" THEN @ + 1 ELSE @]
    /\ UNCHANGED <<pc, nick, clients, rooms, croom, sock, sent, last, attrs, held_room, inbox>>

\* socket.recv returns the oldest frame the peer has written; the handler runs
\* one pass of the loop it is in, and the chat lines it writes reach the
\* connections they are written to.
WireRecv(c) ==
    /\ pc[c] \in {"AwaitingName", "Active"}
    /\ sock[c] \in {"open", "reset"}
    /\ wire[c] # <<>>
    /\ \E r \in {recv(wire[c])} :
          /\ IF pc[c] = "AwaitingName" THEN NameStep(c, r.frame) ELSE ActiveStep(c, r.frame)
          /\ wire' = [wire EXCEPT ![c] = r.rest]
    /\ inbox' = [t \in Conns |-> inbox[t] \o ChatLines(sent', c, t)]
    /\ UNCHANGED <<attrs, held_room, seq>>

Init ==
    /\ pc = [c \in Conns |-> "AwaitingName"]
    /\ nick = [c \in Conns |-> ""]
    /\ clients = <<>>
    /\ rooms = <<>>
    /\ croom = [c \in Conns |-> None]
    /\ sock = [c \in Conns |-> "open"]
    /\ sent = <<>>
    /\ last = [conn |-> 0, kw |-> "start", arg |-> None, exc |-> NoExc]
    /\ attrs = TRUE
    /\ held_room = [c \in Conns |-> None]
    /\ wire = [c \in Conns |-> <<>>]
    /\ seq = [c \in Conns |-> 0]
    /\ inbox = [c \in Conns |-> <<>>]

Next ==
    \E c \in Conns :
        \/ RecvName(c, Frames)
        \/ InsertWrite(c)
        \/ RecvActive(c, Frames)
        \/ RecvFail(c)
        \/ Disconnect(c)

\* Every handler step runs to the end of its loop pass, the write of line 155
\* apart (InsertWrite).
Spec == Init /\ [][Next]_vars

\* Fewer peers, more frames: the peers of WideConns also send \insert without
\* braces and the empty room name.
WideNext ==
    \E c \in WideConns :
        \/ RecvName(c, WideFrames)
        \/ InsertWrite(c)
        \/ RecvActive(c, WideFrames)
        \/ RecvFail(c)
        \/ Disconnect(c)

SpecWide == Init /\ [][WideNext]_vars

\* The handlers with create_room and leave_room in steps, one room name.
RaceNext ==
    \E c \in Conns :
        \/ RecvName(c, NarrowFrames)
        \/ InsertWrite(c)
        \/ RecvSplit(c, NarrowFrames)
        \/ CreateWrite(c)
        \/ LeaveDelete(c)

SpecRace == Init /\ [][RaceNext]_vars

\* The handlers and the console thread's stop_server, one room name.
StopNext ==
    \/ StopServer
    \/ \E c \in Conns :
          \/ RecvName(c, NarrowFrames)
          \/ InsertWrite(c)
          \/ RecvActive(c, NarrowFrames)
          \/ RecvFail(c)
          \/ RecvClosed(c)
          \/ Disconnect(c)

SpecStop == Init /\ [][StopNext]_vars

\* The frames the peers of SpecChat write besides their numbered chat texts:
\* they register, create the room and join it.
ChatFrames ==
    {f \in NarrowFrames : f.kw \in {"insert", "create", "join"} /\ f.arg # None}

\* The peers write their frames to their connections and the handlers read
\* them in the order written.
ChatNext ==
    \E c \in Conns :
        \/ PeerSend(c, ChatFrames)
        \/ WireRecv(c)
        \/ InsertWrite(c)

SpecChat == Init /\ [][ChatNext]_vars

\* ------------------------------------------------------------------ properties
\* The registered clients whose room reference is R.
RefsTo(R) == {n \in KeySet(clients) : croom[Get(clients, n)] = R}

\* Connection c has registered a client and self.clients still holds it under
\* the handler's nick.
Owns(c) == HasKey(clients, nick[c]) /\ Get(clients, nick[c]) = c

\* n is a key of the users dict of room R in the rooms dict rs.
InRoom(rs, R, n) == HasKey(rs, R) /\ HasKey(Get(rs, R), n)

\* The step described by l was the failure of connection c's own socket:
\* its recv raised, or its peer was gone while a frame was being processed and
\* a send raised ConnectionResetError / BrokenPipeError.
OwnFailure(l, c) ==
    /\ l.conn = c
    /\ \/ l.kw = "recv_error"
       \/ sock[c] = "reset" /\ l.exc \in ConnErrors

\* C1 (uniqueness of names): no two handlers are Active under the same
\* nickname, whatever the interleaving of their membership tests and registry
\* writes.
C1_UniqueNames ==
    \A c1, c2 \in Conns :
        (c1 # c2 /\ pc[c1] = "Active" /\ pc[c2] = "Active") => nick[c1] # nick[c2]

\* C2 (room consistency): in every reachable state the member set of every
\* room R is exactly the set of registered clients whose room reference is R.
C2_RoomConsistency ==
    \A i \in 1..Len(rooms) : KeySet(rooms[i].v) = RefsTo(rooms[i].k)

\* C3 (empty-room deletion): when the only registered client whose room
\* reference is R completes a leave or a quit, R is no key of rooms afterwards.
C3_EmptyRoomDeleted ==
    [][\A c \in Conns, R \in RoomArgs :
          (/\ pc[c] = "Active"
           /\ Owns(c)
           /\ RefsTo(R) = {nick[c]}
           /\ last'.conn = c
           /\ last'.kw \in {"leave", "quit"}
           /\ last'.exc = NoExc)
          => ~HasKey(rooms', R)]_vars

\* C4 (disconnect cleanup): when the connection of an Active client that is a
\* member of room R fails, the client is gone from R's member set and from
\* clients afterwards, and R is gone from rooms if the client was its last
\* member.
C4_DisconnectCleanup ==
    [][\A c \in Conns, R \in RoomArgs :
          (/\ pc[c] = "Active"
           /\ Owns(c)
           /\ croom[c] = R
           /\ InRoom(rooms, R, nick[c])
           /\ OwnFailure(last', c))
          => /\ ~HasKey(clients', nick[c])
             /\ ~InRoom(rooms', R, nick[c])
             /\ (KeySet(Get(rooms, R)) = {nick[c]} => ~HasKey(rooms', R))]_vars

\* C5 (ungraceful quit equals quit): a connection failure of an Active client,
\* in a room or not, leaves its name out of clients, its socket closed and its
\* handler Terminated (not ended by an unhandled error).
C5_UngracefulQuit ==
    [][\A c \in Conns :
          (pc[c] = "Active" /\ Owns(c) /\ OwnFailure(last', c))
          => /\ pc'[c] = "Terminated"
             /\ sock'[c] = "closed"
             /\ ~HasKey(clients', nick[c])]_vars

\* C6 (broadcast isolation): when a chat message or an online-list update is
\* broadcast to a room one of whose members has a dead connection, every
\* member with a live connection still receives it, and the handler that
\* triggered it stays Active and registered.
C6_BroadcastIsolation ==
    [][\A c \in Conns, R \in RoomArgs :
          (/\ pc[c] = "Active"
           /\ Owns(c)
           /\ last'.conn = c
           /\ sock[c] = "open"
           /\ \/ last'.kw = "text" /\ croom[c] = R
              \/ last'.kw = "join" /\ last'.arg = R
           /\ HasKey(rooms, R)
           /\ \E i \in 1..Len(Get(rooms, R)) : sock[Get(rooms, R)[i].v] # "open")
          => /\ \A a \in Conns :
                   (sock[a] = "open" /\ \E i \in 1..Len(Get(rooms, R)) : Get(rooms, R)[i].v = a)
                   => \E j \in 1..Len(sent') :
                         /\ sent'[j].to = a
                         /\ sent'[j].frame.kind \in {"chat", "online"}
             /\ pc'[c] = "Active"
             /\ Owns(c)']_vars

\* C7 (error containment): the failure of connection c, in any state of its
\* handler, leaves every clients entry that belongs to another connection, its
\* room reference and its room memberships as they were.
C7_ErrorContainment ==
    [][\A c \in Conns :
          OwnFailure(last', c)
          => \A n \in KeySet(clients) :
                Get(clients, n) # c
                => /\ HasKey(clients', n)
                   /\ Get(clients', n) = Get(clients, n)
                   /\ croom'[Get(clients, n)] = croom[Get(clients, n)]
                   /\ \A R \in RoomArgs : InRoom(rooms', R, n) <=> InRoom(rooms, R, n)]_vars

\* C8 (quit reply): the only frame a quit of an Active client writes to the
\* client's own connection is quit=success.
C8_QuitReply ==
    [][\A c \in Conns :
          (pc[c] = "Active" /\ sock[c] = "open" /\ last'.conn = c /\ last'.kw = "quit")
          => \A i \in 1..Len(sent') :
                sent'[i].to = c => sent'[i].frame = Reply("quit", <<"success">>)]_vars

\* C9 (no references after termination): the client object of a Terminated
\* handler is a value of neither clients nor the users dict of any room.
C9_NoReferences ==
    \A c \in Conns :
        pc[c] = "Terminated"
        => /\ \A i \in 1..Len(clients) : clients[i].v # c
           /\ \A i \in 1..Len(rooms) : \A j \in 1..Len(rooms[i].v) : rooms[i].v[j].v # c

\* C10 (create validation): create{r} replies create=success and adds r to
\* rooms only when r is a non-empty string that is no room name yet; otherwise
\* (r exists, r is empty, no argument) it replies create=failure and rooms is
\* unchanged.
C10_CreateValidation ==
    [][\A c \in Conns :
          (pc[c] = "Active" /\ last'.conn = c /\ last'.kw = "create" /\ sock[c] = "open")
          => IF last'.arg \notin {None, ""} /\ ~HasKey(rooms, last'.arg)
             THEN /\ sent' = <<[to |-> c, frame |-> Reply("create", <<"success">>)]>>
                  /\ rooms' = Append(rooms, [k |-> last'.arg, v |-> <<>>])
             ELSE /\ sent' = <<[to |-> c, frame |-> Reply("create", <<"failure">>)]>>
                  /\ rooms' = rooms]_vars

\* C11 (concurrent create): a create writes its room and replies create=success
\* only when the name is no key of rooms at the write, so two handlers that
\* process create{r} for the same unused r do not both succeed and no existing
\* member set is replaced.
C11_ConcurrentCreate ==
    [][\A c \in Conns :
          (pc[c] = "CreateWrite" /\ last'.conn = c /\ last'.kw = "create_write")
          => ~HasKey(rooms, held_room[c])]_vars

\* C12 (unknown room): a join of an Active client for a name that is no key of
\* rooms (or without a name) replies join=failure and nothing else, and leaves
\* clients, every room reference, every member set and rooms as they were.
C12_UnknownRoom ==
    [][\A c \in Conns :
          (/\ pc[c] = "Active"
           /\ sock[c] = "open"
           /\ last'.conn = c
           /\ last'.kw = "join"
           /\ ~HasKey(rooms, last'.arg))
          => /\ sent' = <<[to |-> c, frame |-> Reply("join", <<"failure">>)]>>
             /\ clients' = clients
             /\ croom' = croom
             /\ rooms' = rooms
             /\ pc'[c] = "Active"]_vars

\* A client that is in a room has just been refused the join of an unknown room.
C12_Witness ==
    /\ last.kw = "join"
    /\ last.arg \in RoomArgs
    /\ ~HasKey(rooms, last.arg)
    /\ last.conn \in Conns
    /\ pc[last.conn] = "Active"
    /\ croom[last.conn] \in RoomArgs
    /\ sent = <<[to |-> last.conn, frame |-> Reply("join", <<"failure">>)]>>

\* C13 (join round-trip): a client that is registered under its name and
\* joins a room nobody is in (as it is right after its create) is sent
\* join=success first and is the room's one member afterwards; and while a
\* room's member list is one name, an online{r} of any Active client is
\* answered with exactly that name.
C13_JoinRoundTrip ==
    [][\A c \in Conns, r \in RoomArgs :
          (/\ pc[c] = "Active"
           /\ sock[c] = "open"
           /\ last'.conn = c
           /\ last'.arg = r
           /\ HasKey(rooms, r))
          => /\ (last'.kw = "join" /\ Get(rooms, r) = <<>> /\ Owns(c))
                => /\ Len(sent') >= 1
                   /\ sent'[1] = [to |-> c, frame |-> Reply("join", <<"success">>)]
                   /\ Keys(Get(rooms', r)) = <<nick[c]>>
             /\ (last'.kw = "online" /\ Len(Get(rooms, r)) = 1)
                => sent' = <<[to |-> c, frame |-> Reply("online", Keys(Get(rooms, r)))]>>]_vars

\* bob has just asked who is in a room whose one member is alice, and was
\* answered online=alice.
C13_Witness ==
    /\ last.kw = "online"
    /\ last.arg \in RoomArgs
    /\ last.conn \in Conns
    /\ nick[last.conn] = "bob"
    /\ HasKey(rooms, last.arg)
    /\ Keys(Get(rooms, last.arg)) = <<"alice">>
    /\ sent = <<[to |-> last.conn, frame |-> Reply("online", <<"alice">>)]>>

\* C14 (idempotent leave): a leave of an Active client that is in a room is
\* answered with leave=success first; a leave that follows a completed leave
\* of the same client is answered with leave=no_room and nothing else, and
\* changes neither clients nor rooms nor any room reference.
C14_IdempotentLeave ==
    [][\A c \in Conns :
          (/\ pc[c] = "Active"
           /\ sock[c] = "open"
           /\ HasKey(clients, nick[c])
           /\ last'.conn = c
           /\ last'.kw = "leave")
          => /\ croom[Get(clients, nick[c])] # None
                => /\ Len(sent') >= 1
                   /\ sent'[1] = [to |-> c, frame |-> Reply("leave", <<"success">>)]
             /\ (last.conn = c /\ last.kw = "leave" /\ last.exc = NoExc)
                => /\ sent' = <<[to |-> c, frame |-> Reply("leave", <<"no_room">>)]>>
                   /\ clients' = clients
                   /\ rooms' = rooms
                   /\ croom' = croom
                   /\ pc'[c] = "Active"]_vars

\* A registered client that was in a room has just completed a leave (it was
\* answered leave=success) and its connection is live: the leave it sends
\* next is the second of two consecutive ones.
C14_Witness ==
    /\ last.kw = "leave"
    /\ last.exc = NoExc
    /\ last.conn \in Conns
    /\ pc[last.conn] = "Active"
    /\ sock[last.conn] = "open"
    /\ Owns(last.conn)
    /\ croom[last.conn] = None
    /\ Len(sent) >= 1
    /\ sent[1] = [to |-> last.conn, frame |-> Reply("leave", <<"success">>)]

\* C15 (AwaitingName rejection): a frame read in AwaitingName that is neither
\* quit nor insert with a name in braces (chat text, a command of the Active
\* state, insert without braces) is answered with exactly one
\* insert=not_valid_nickname; the handler stays in AwaitingName and clients is
\* unchanged.
C15_NameRejection ==
    [][\A c \in Conns :
          (/\ pc[c] = "AwaitingName"
           /\ sock[c] = "open"
           /\ last'.conn = c
           /\ [kw |-> last'.kw, arg |-> last'.arg] \in WideFrames
           /\ last'.kw # "quit"
           /\ ~(last'.kw = "insert" /\ last'.arg # None))
          => /\ sent' = <<[to |-> c, frame |-> Reply("insert", <<"not_valid_nickname">>)]>>
             /\ pc'[c] = "AwaitingName"
             /\ clients' = clients]_vars

\* C16 (shutdown closes everything): once stop_server has run, the socket of
\* every connection whose handler has not Terminated is closed, connections in
\* AwaitingName included, and no handler has ended with an unhandled error.
C16_ShutdownCloses ==
    ~attrs => /\ \A c \in Conns : pc[c] # "Terminated" => sock[c] = "closed"
              /\ last.kw = "recv_closed" => pc[last.conn] = "Terminated"

\* C17 (per-sender ordering): the chat lines one connection receives from one
\* sender are in the order in which that sender's peer wrote the texts,
\* whatever the other handlers do in between.
C17_SenderOrder ==
    \A t \in Conns, s \in Conns :
        \A i \in 1..Len(inbox[t]), j \in 1..Len(inbox[t]) :
            (i < j /\ inbox[t][i].from = s /\ inbox[t][j].from = s)
            => NoOfChat(inbox[t][i].text) < NoOfChat(inbox[t][j].text)

\* A connection has received the first and then the second text of another
\* connection's peer.
C17_Witness ==
    \E t \in Conns, s \in Conns :
        /\ t # s
        /\ \E i \in 1..Len(inbox[t]), j \in 1..Len(inbox[t]) :
              /\ i < j
              /\ inbox[t][i] = [from |-> s, text |-> ChatNo(1)]
              /\ inbox[t][j] = [from |-> s, text |-> ChatNo(2)]

\* C18 (a room is never removed while occupied): every registered client's
\* room reference is None or a key of rooms, under any interleaving of a leave
\* or quit (emptiness test and room deletion in separate steps) with the joins
\* of other clients.
C18_OccupiedRoomKept ==
    \A i \in 1..Len(clients) :
        croom[clients[i].v] # None => HasKey(rooms, croom[clients[i].v])

\* C19 (chat without a room is dropped): a frame that is no command, from an
\* Active client whose room reference is None, writes no frame to any
\* connection and leaves clients, rooms and the room references unchanged; the
\* handler stays Active.
C19_ChatDropped ==
    [][\A c \in Conns :
          (/\ pc[c] = "Active"
           /\ HasKey(clients, nick[c])
           /\ croom[Get(clients, nick[c])] = None
           /\ last'.conn = c
           /\ ~commands_re([kw |-> last'.kw, arg |-> last'.arg]).match
           /\ [kw |-> last'.kw, arg |-> last'.arg] \in Frames)
          => /\ sent' = <<>>
             /\ clients' = clients
             /\ rooms' = rooms
             /\ croom' = croom
             /\ pc'[c] = "Active"]_vars

\* A registered client outside every room has just sent chat text while the
\* other client is in a room: nothing was written.
C19_Witness ==
    /\ last.kw = "text"
    /\ last.exc = NoExc
    /\ last.conn \in Conns
    /\ pc[last.conn] = "Active"
    /\ Owns(last.conn)
    /\ croom[last.conn] = None
    /\ sent = <<>>
    /\ \E d \in Conns : d # last.conn /\ pc[d] = "Active" /\ Owns(d) /\ InRoom(rooms, croom[d], nick[d])

\* C20 (chat stays in the sender's room): while every connection is live, a
\* chat text of a registered client whose room reference is R is written to
\* every registered client whose room reference is R and to no connection
\* whose client has another room reference or none, after any sequence of
\* create, join, leave and quit.
C20_ChatInRoom ==
    [][\A c \in Conns, R \in RoomArgs :
          (/\ pc[c] = "Active"
           /\ Owns(c)
           /\ croom[c] = R
           /\ \A d \in Conns : sock[d] = "open"
           /\ last'.conn = c
           /\ last'.kw = "text")
          => \A d \in Conns :
                (\E j \in 1..Len(sent') : sent'[j].to = d /\ sent'[j].frame.kind = "chat")
                <=> (croom[d] = R /\ \E i \in 1..Len(clients) : clients[i].v = d)]_vars

====
